---- MODULE Spec2Model ----
(***************************************************************************)
(* The news refresh pipeline of crypto-news-app: class NewsManager in its   *)
(* two variants,                                                            *)
(*   "partitioned"  src/static/script.js   (cryptoNewsList/generalNewsList) *)
(*   "unified"      src/unnamed/part_000   (newsList, sentNewsLinks)        *)
(* A news item is modelled by its link (a number).  The page (DOM) is the   *)
(* set of element ids it holds, the content of each news container, the    *)
(* totalNews / lastUpdate texts and the loading indicator.                  *)
(***************************************************************************)
EXTENDS Integers, Sequences, FiniteSets, TLC

VARIABLES
    variant,          \* which of the two NewsManager classes runs
    dom,              \* ids of the elements the page holds (fixed per run)
    phase,            \* startNewsCollection: "startup" | "periodic" | "stopped"
    inflight,         \* cycles suspended in fetchNewsFromCollector, in issue order
    newsList,         \* unified: this.newsList
    cryptoNewsList,   \* partitioned: this.cryptoNewsList
    generalNewsList,  \* partitioned: this.generalNewsList
    sentNewsLinks,    \* this.sentNewsLinks
    display,          \* container id -> what its innerHTML shows
    totalNews,        \* text of #totalNews
    lastUpdate,       \* whether #lastUpdate was written by updateStats
    loading,          \* the loading indicator(s) are shown
    last,             \* history: the cycle that completed last
    elapsedMs,        \* getTimeAgo: now - newsTime of the item being rendered
    timeAgo           \* getTimeAgo: the label it returned

vars == <<variant, dom, phase, inflight, newsList, cryptoNewsList,
          generalNewsList, sentNewsLinks, display, totalNews, lastUpdate,
          loading, last, elapsedMs, timeAgo>>

-----------------------------------------------------------------------------
(* Bounds of the model *)

\* cycles that may be suspended in their fetch at once
MaxInFlight == 2
\* a payload list is at most maxNewsCount + MaxOver items long
MaxOver == 1

(* Program constants *)

MaxNewsCountPartitioned == 5
MaxNewsCountUnified == 50

maxNewsCount(v) == IF v = "partitioned" THEN MaxNewsCountPartitioned
                   ELSE MaxNewsCountUnified

Variants == {"partitioned", "unified"}

-----------------------------------------------------------------------------
(* Payloads: lists of items as the endpoint delivers them *)

\* the items start, start+1, ... : a list of len distinct links
Ramp(start, len) == [i \in 1..len |-> start + i - 1]

Starts == {1, 2}

\* lengths: empty, one item, and around the cap
ListLens(v) == {0, 1} \cup (maxNewsCount(v)..(maxNewsCount(v) + MaxOver))

Lists(v) == {Ramp(s, n) : s \in Starts, n \in ListLens(v)}

Links(list) == {list[i] : i \in 1..Len(list)}

\* Array.prototype.slice(0, n)
Slice(list, n) == SubSeq(list, 1, IF Len(list) < n THEN Len(list) ELSE n)

-----------------------------------------------------------------------------
(* Responses of GET /api/news, as fetchNewsFromCollector sees them *)

NoList == << >>

Response(net, status, body, success, shape, news, crypto, general) ==
    [net |-> net, status |-> status, body |-> body, success |-> success,
     shape |-> shape, news |-> news, crypto_news |-> crypto,
     general_news |-> general]

\* fetch() rejects (network failure)
NetReject == Response("reject", 0, "none", "absent", "none", NoList, NoList, NoList)
\* fetch() resolves with a non-2xx status
Http500 == Response("ok", 500, "none", "absent", "none", NoList, NoList, NoList)
\* response.json() rejects
BadJson == Response("ok", 200, "unparseable", "absent", "none", NoList, NoList, NoList)
\* the body is the JSON value null
NullJson == Response("ok", 200, "null", "absent", "none", NoList, NoList, NoList)
\* {success: false}, {} and {success: true} without any list
Envelope(success) ==
    Response("ok", 200, "object", success, "none", NoList, NoList, NoList)
\* {success: s, news: [...]}
Flat(success, news) ==
    Response("ok", 200, "object", success, "flat", news, NoList, NoList)
\* {success: s, crypto_news: [...], general_news: [...]}
Partitioned(success, crypto, general) ==
    Response("ok", 200, "object", success, "partitioned", NoList, crypto, general)

\* the general list of a partitioned payload uses links of its own
GeneralOf(list) == [i \in 1..Len(list) |-> 100 + list[i]]

\* the bodies a 200 response may carry: both supported shapes reach each variant
CommonBodies ==
    {BadJson, NullJson, Envelope("false"), Envelope("absent"), Envelope("true")}

BodiesUnified ==
    CommonBodies
    \cup {Flat("true", l) : l \in Lists("unified")}
    \cup {Flat("false", Ramp(1, 1)),
          Partitioned("true", Ramp(1, 1), GeneralOf(Ramp(1, 1)))}

\* the lengths of a partitioned payload's lists: one category empty, or both alike
LenPairs ==
    UNION {{<<n, 0>>, <<0, n>>, <<n, n>>} : n \in ListLens("partitioned")}

BodiesPartitioned ==
    CommonBodies
    \cup {Partitioned("true", Ramp(s, n[1]), GeneralOf(Ramp(s, n[2]))) :
              s \in Starts, n \in LenPairs}
    \cup {Partitioned("false", Ramp(1, 1), GeneralOf(Ramp(1, 1))),
          Flat("true", Ramp(1, 1))}

Bodies(v) == IF v = "unified" THEN BodiesUnified ELSE BodiesPartitioned

\* response.ok
Ok(r) == r.status >= 200 /\ r.status <= 299

\* the items a response carries, whatever its shape
ItemsOf(r) ==
    IF r.body # "object" THEN {}
    ELSE IF r.shape = "flat" THEN Links(r.news)
    ELSE IF r.shape = "partitioned"
         THEN Links(r.crypto_news) \cup Links(r.general_news)
    ELSE {}

-----------------------------------------------------------------------------
(* fetchNewsFromCollector *)

Thrown(r) == [threw |-> TRUE, kind |-> "none", list |-> NoList, data |-> r]
Returned(kind, list, r) == [threw |-> FALSE, kind |-> kind, list |-> list, data |-> r]

\* the value the catch block and the else branch return
NoData(v, r) == IF v = "unified" THEN Returned("list", NoList, r)
                ELSE Returned("null", NoList, r)

\* the body of the try block
FetchTry(v, r) ==
    IF r.net = "reject" THEN Thrown(r)                 \* await fetch(...) rejects
    ELSE IF ~Ok(r) THEN Thrown(r)                      \* throw new Error(`HTTP error! ...`)
    ELSE IF r.body = "unparseable" THEN Thrown(r)      \* await response.json() rejects
    ELSE IF r.body = "null" THEN Thrown(r)             \* data.success on null: TypeError
    ELSE IF v = "unified"
         THEN IF r.success = "true" /\ r.shape = "flat"   \* data.success && data.news
              THEN Returned("list", r.news, r)
              ELSE NoData(v, r)
         ELSE IF r.success = "true"                        \* data.success
              THEN Returned("data", NoList, r)
              ELSE NoData(v, r)

\* the function without its catch block
fetchWithoutCatch(v, r) == FetchTry(v, r)

fetchNewsFromCollector(v, r) ==
    LET t == FetchTry(v, r)
    IN  IF t.threw THEN NoData(v, r) ELSE t

-----------------------------------------------------------------------------
(* The page *)

Containers(v) == IF v = "unified" THEN {"newsContainer"}
                 ELSE {"generalNewsContainer", "cryptoNewsContainer"}

Indicators(v) == IF v = "unified" THEN {"loadingIndicator"}
                 ELSE {"generalLoadingIndicator", "cryptoLoadingIndicator"}

Elements(v) == Containers(v) \cup Indicators(v) \cup {"totalNews", "lastUpdate"}

AllContainers == Containers("unified") \cup Containers("partitioned")

\* what a container shows: the markup it starts with, a rendered list,
\* the no-news message or the error message
Content(kind, items) == [kind |-> kind, items |-> items]

\* element.innerHTML = content; a TypeError when getElementById gave null
SetHTML(p, id, content) ==
    IF id \in dom THEN [p EXCEPT !.display[id] = content]
    ELSE [p EXCEPT !.threw = TRUE]

Call(p, name) == [p EXCEPT !.calls = @ \cup {name}]

\* two statements in a row: b, the second run on a's result, unless a threw
AndThen(a, b) == IF a.threw THEN a ELSE b

showLoading(p, show) ==
    [p EXCEPT !.loading = IF show THEN @ \cup (Indicators(variant) \cap dom)
                          ELSE @ \ (Indicators(variant) \cap dom)]

(* unified variant *)

showNoNewsMessage(p) ==
    IF variant = "unified"
    THEN SetHTML(Call(p, "showNoNewsMessage"), "newsContainer", Content("empty", NoList))
    ELSE [p EXCEPT !.threw = TRUE]     \* script.js defines no such method: TypeError

displayNewsUnified(p) ==
    IF Len(p.newsList) = 0 THEN showNoNewsMessage(p)
    ELSE SetHTML(p, "newsContainer", Content("list", p.newsList))

(* partitioned variant *)

Section(list) ==
    LET shown == Slice(list, maxNewsCount("partitioned"))
    IN  IF Len(shown) = 0 THEN Content("empty", NoList) ELSE Content("list", shown)

displayGeneralNews(p) == SetHTML(p, "generalNewsContainer", Section(p.generalNewsList))

displayCryptoNews(p) == SetHTML(p, "cryptoNewsContainer", Section(p.cryptoNewsList))

displayNews(p) ==
    IF variant = "unified" THEN displayNewsUnified(Call(p, "displayNews"))
    ELSE LET a == displayGeneralNews(Call(p, "displayNews"))
         IN  AndThen(a, displayCryptoNews(a))

showErrorGeneral(p) == SetHTML(p, "generalNewsContainer", Content("error", NoList))
showErrorCrypto(p) == SetHTML(p, "cryptoNewsContainer", Content("error", NoList))

showErrorMessage(p) ==
    IF variant = "unified"
    THEN SetHTML(Call(p, "showErrorMessage"), "newsContainer", Content("error", NoList))
    ELSE LET a == showErrorGeneral(Call(p, "showErrorMessage"))
         IN  AndThen(a, showErrorCrypto(a))

StoreCount(p) == IF variant = "unified" THEN Len(p.newsList)
                 ELSE Len(p.cryptoNewsList) + Len(p.generalNewsList)

setTotalNews(p) ==
    IF "totalNews" \in dom
    THEN [p EXCEPT !.totalNews = [written |-> TRUE, n |-> StoreCount(p)]]
    ELSE [p EXCEPT !.threw = TRUE]

setLastUpdate(p) ==
    IF "lastUpdate" \in dom THEN Call([p EXCEPT !.lastUpdate = TRUE], "statsDone")
    ELSE [p EXCEPT !.threw = TRUE]

updateStats(p) ==
    LET a == setTotalNews(Call(p, "updateStats"))
    IN  AndThen(a, setLastUpdate(a))

\* displayNews(); updateStats();
displayAndStats(p) ==
    LET a == displayNews(p)
    IN  AndThen(a, updateStats(a))

-----------------------------------------------------------------------------
(* getTimeAgo, as a function of diffMs = now - newsTime *)

\* a label: '방금' (now), 'N분 전' (minutes), 'N시간 전' (hours), 'N일 전' (days)
Label(tier, n) == [tier |-> tier, n |-> n, again |-> FALSE]

NotRendered == Label("none", 0)

\* truncation toward zero, as (x / y) | 0 or parseInt would give
TruncDiv(a, b) == IF a >= 0 THEN a \div b ELSE -((-a) \div b)

\* the minutes computed by rounding toward zero
diffMinsTruncating(v, diffMs) ==
    IF v = "partitioned" THEN TruncDiv(TruncDiv(diffMs, 1000), 60)
    ELSE diffMs \div 60000

\* partitioned: Math.floor(Math.floor(diffMs / 1000) / 60)
\* unified:     Math.floor(diffMs / 60000)
diffMins(v, diffMs) ==
    IF v = "partitioned" THEN (diffMs \div 1000) \div 60
    ELSE diffMs \div 60000

\* the cascade with inclusive thresholds
timeAgoLabelInclusive(mins) ==
    IF mins <= 1 THEN Label("now", 0)
    ELSE IF mins <= 60 THEN Label("minutes", mins)
    ELSE IF mins \div 60 <= 24 THEN Label("hours", mins \div 60)
    ELSE Label("days", (mins \div 60) \div 24)

\* the cascade showing the minutes left over in the hours tier
timeAgoLabelRemainder(mins) ==
    IF mins < 1 THEN Label("now", 0)
    ELSE IF mins < 60 THEN Label("minutes", mins)
    ELSE IF mins \div 60 < 24 THEN Label("hours", mins % 60)
    ELSE Label("days", (mins \div 60) \div 24)

\* the cascade of returns that follows diffMins in both variants
timeAgoLabel(mins) ==
    IF mins < 1 THEN Label("now", 0)
    ELSE IF mins < 60 THEN Label("minutes", mins)
    ELSE IF mins \div 60 < 24 THEN Label("hours", mins \div 60)
    ELSE Label("days", (mins \div 60) \div 24)

getTimeAgo(v, diffMs) == timeAgoLabel(diffMins(v, diffMs))

-----------------------------------------------------------------------------
(* collectAndDisplayNews *)

\* the cap keeping the newest-last end: slice(-max)
TruncateTail(list, max) ==
    IF Len(list) > max THEN SubSeq(list, Len(list) - max + 1, Len(list)) ELSE list

\* unified: if (this.newsList.length > this.maxNewsCount) slice(0, maxNewsCount)
Truncate(list, max) == IF Len(list) > max THEN Slice(list, max) ELSE list

\* an incremental merge: only the links not yet in sentNewsLinks are kept
StoreUnseenOnly(p, newNews) ==
    [p EXCEPT !.newsList = Truncate(SelectSeq(newNews, LAMBDA x : x \notin p.sentNewsLinks),
                                    maxNewsCount("unified")),
              !.sentNewsLinks = @ \cup Links(newNews)]

\* the links recorded after the cap: only those of the items kept
StoreLinksOfKept(p, newNews) ==
    [p EXCEPT !.newsList = Truncate(newNews, maxNewsCount("unified")),
              !.sentNewsLinks = @ \cup Links(Truncate(newNews, maxNewsCount("unified")))]

\* unified: replace the list, record the links, keep the cap
StoreUnified(p, newNews) ==
    [p EXCEPT !.newsList = Truncate(newNews, maxNewsCount("unified")),
              !.sentNewsLinks = @ \cup Links(newNews)]

\* newsData.crypto_news || []  and  newsData.general_news || []
CryptoField(data) == IF data.shape = "partitioned" THEN data.crypto_news ELSE NoList
GeneralField(data) == IF data.shape = "partitioned" THEN data.general_news ELSE NoList

\* partitioned: replace both lists
StorePartitioned(p, data) ==
    [p EXCEPT !.cryptoNewsList = CryptoField(data),
              !.generalNewsList = GeneralField(data)]

\* the else branch without its re-render of the list held
NoNewsBranchMessageOnly(p) == showNoNewsMessage(p)

\* the else branch re-rendering the list but leaving the stats alone
NoNewsBranchWithoutStats(p) ==
    IF StoreCount(p) = 0 THEN showNoNewsMessage(p)
    ELSE displayNews(p)

\* the else branch: nothing arrived
NoNewsBranch(p) ==
    IF StoreCount(p) = 0 THEN showNoNewsMessage(p)
    ELSE displayAndStats(p)

\* the try block rendering too early: before the cap is applied (unified),
\* between the two assignments (partitioned)
TryBlockRenderFirst(p, fetched) ==
    IF fetched.threw THEN [p EXCEPT !.threw = TRUE]
    ELSE IF variant = "unified"
         THEN IF Len(fetched.list) > 0
              THEN LET a == displayAndStats([p EXCEPT !.newsList = fetched.list])
                   IN  AndThen(a, [a EXCEPT !.newsList = StoreUnified(p, fetched.list).newsList,
                                            !.sentNewsLinks = StoreUnified(p, fetched.list).sentNewsLinks])
              ELSE NoNewsBranch(p)
         ELSE IF fetched.kind = "data"
              THEN LET a == displayAndStats([p EXCEPT !.cryptoNewsList = CryptoField(fetched.data)])
                   IN  AndThen(a, [a EXCEPT !.generalNewsList = GeneralField(fetched.data)])
              ELSE NoNewsBranch(p)

\* the try block after the await
TryBlock(p, fetched) ==
    IF fetched.threw THEN [p EXCEPT !.threw = TRUE]
    ELSE IF variant = "unified"
         THEN IF Len(fetched.list) > 0          \* newNews && newNews.length > 0
              THEN displayAndStats(StoreUnified(p, fetched.list))
              ELSE NoNewsBranch(p)
         ELSE IF fetched.kind = "data"          \* if (newsData)
              THEN displayAndStats(StorePartitioned(p, fetched.data))
              ELSE NoNewsBranch(p)

\* catch (error) { showErrorMessage() }: an error thrown here propagates
CatchBlock(t) ==
    IF t.threw THEN showErrorMessage(Call([t EXCEPT !.threw = FALSE], "catch"))
    ELSE t

\* showLoading(false) as a last statement instead of a finally block
collectWithoutFinally(p, fetched) ==
    LET c == CatchBlock(TryBlock(p, fetched))
    IN  AndThen(c, showLoading(c, FALSE))

\* the part of collectAndDisplayNews that runs once the fetch has settled;
\* .threw tells whether the promise of the cycle rejects
collectAndDisplayNews(p, fetched) == showLoading(CatchBlock(TryBlock(p, fetched)), FALSE)

-----------------------------------------------------------------------------
(* State machine *)

Page ==
    [newsList |-> newsList, cryptoNewsList |-> cryptoNewsList,
     generalNewsList |-> generalNewsList, sentNewsLinks |-> sentNewsLinks,
     display |-> display, totalNews |-> totalNews, lastUpdate |-> lastUpdate,
     loading |-> loading, threw |-> FALSE, calls |-> {}]

Store == [newsList |-> newsList, cryptoNewsList |-> cryptoNewsList,
          generalNewsList |-> generalNewsList]

\* a cycle suspended at an await; late (history, recorded under OrderSpec): a
\* request issued after this cycle's has already delivered a payload
Cycle(stage, first) == [stage |-> stage, first |-> first, late |-> FALSE]


Remove(seq, i) == SubSeq(seq, 1, i - 1) \o SubSeq(seq, i + 1, Len(seq))

\* cycle i leaves; if it delivered a payload, the cycles issued before it that
\* are still pending are late from now on
Overtake(seq, i, payload) ==
    Remove([k \in 1..Len(seq) |->
               IF k < i THEN [seq[k] EXCEPT !.late = @ \/ payload] ELSE seq[k]], i)

\* the pages: complete, or with one of the elements the code looks up missing
DomChoices(v) == {Elements(v)} \cup {Elements(v) \ {e} : e \in Elements(v)}

\* the state once the constructor has run: init() has called
\* startNewsCollection(), whose first cycle is suspended in its fetch
PageInit ==
    /\ variant \in Variants
    /\ dom \in DomChoices(variant)
    /\ phase = "startup"
    /\ inflight = << Cycle("fetch", TRUE) >>
    /\ newsList = NoList
    /\ cryptoNewsList = NoList
    /\ generalNewsList = NoList
    /\ sentNewsLinks = {}
    /\ display = [c \in AllContainers |-> Content("initial", NoList)]
    /\ totalNews = [written |-> FALSE, n |-> 0]
    /\ lastUpdate = FALSE
    /\ loading = Indicators(variant) \cap dom
    /\ last = [done |-> FALSE, first |-> FALSE, resp |-> NetReject,
               fetched |-> NoData(variant, NetReject),
               repeat |-> FALSE, threw |-> FALSE, calls |-> {}]

Init ==
    /\ PageInit
    /\ elapsedMs = 0
    /\ timeAgo = NotRendered

\* the setInterval callback: a new cycle runs up to its await
TimerTick ==
    /\ phase = "periodic"
    /\ Len(inflight) < MaxInFlight
    /\ inflight' = Append(inflight, Cycle("fetch", FALSE))
    /\ loading' = showLoading(Page, TRUE).loading
    /\ UNCHANGED <<variant, dom, phase, newsList, cryptoNewsList, generalNewsList,
                   sentNewsLinks, display, totalNews, lastUpdate, last,
                   elapsedMs, timeAgo>>

\* cycle i resumes with response r and runs to its end; the first cycle's
\* end decides whether startNewsCollection goes on to setInterval
FinishAs(i, r, ordered) ==
    \E fetched \in {fetchNewsFromCollector(variant, r)} :
    \E q \in {collectAndDisplayNews(Page, fetched)} :
        /\ newsList' = q.newsList
        /\ cryptoNewsList' = q.cryptoNewsList
        /\ generalNewsList' = q.generalNewsList
        /\ sentNewsLinks' = q.sentNewsLinks
        /\ display' = q.display
        /\ totalNews' = q.totalNews
        /\ lastUpdate' = q.lastUpdate
        /\ loading' = q.loading
        /\ inflight' = IF ordered
                       THEN Overtake(inflight, i, fetched.kind = "data" \/ fetched.list # NoList)
                       ELSE Remove(inflight, i)
        /\ phase' = IF inflight[i].first
                    THEN (IF q.threw THEN "stopped" ELSE "periodic")
                    ELSE phase
        /\ last' = [done |-> TRUE, first |-> inflight[i].first, resp |-> r,
                    fetched |-> fetched,
                    repeat |-> last.done /\ last.resp = r,
                    threw |-> q.threw, calls |-> q.calls]
        /\ UNCHANGED <<variant, dom, elapsedMs, timeAgo>>

Finish(i, r) == FinishAs(i, r, FALSE)

\* await fetch('/api/news') rejects
FetchRejects(i) ==
    /\ inflight[i].stage = "fetch"
    /\ Finish(i, NetReject)

\* await fetch('/api/news') resolves with a non-2xx status
FetchNotOk(i) ==
    /\ inflight[i].stage = "fetch"
    /\ Finish(i, Http500)

\* await fetch('/api/news') resolves with status 200: on to response.json()
FetchOk(i) ==
    /\ inflight[i].stage = "fetch"
    /\ inflight' = [inflight EXCEPT ![i].stage = "json"]
    /\ UNCHANGED <<variant, dom, phase, newsList, cryptoNewsList, generalNewsList,
                   sentNewsLinks, display, totalNews, lastUpdate, loading, last,
                   elapsedMs, timeAgo>>

\* await response.json() settles
JsonSettles(i) ==
    /\ inflight[i].stage = "json"
    /\ \E r \in Bodies(variant) : Finish(i, r)

Next ==
    \/ TimerTick
    \/ \E i \in 1..Len(inflight) : FetchRejects(i)
    \/ \E i \in 1..Len(inflight) : FetchNotOk(i)
    \/ \E i \in 1..Len(inflight) : FetchOk(i)
    \/ \E i \in 1..Len(inflight) : JsonSettles(i)

Spec == Init /\ [][Next]_vars

\* a cycle's last await settles as in FetchRejects, FetchNotOk or JsonSettles,
\* with the order of issue recorded in the cycles still pending
FinishInOrder(i) ==
    \E r \in IF inflight[i].stage = "fetch" THEN {NetReject, Http500} ELSE Bodies(variant) :
        FinishAs(i, r, TRUE)

OrderNext ==
    \/ TimerTick
    \/ \E i \in 1..Len(inflight) : FetchOk(i)
    \/ \E i \in 1..Len(inflight) : FinishInOrder(i)

\* Spec with the history flag late kept up to date
OrderSpec == Init /\ [][OrderNext]_vars

\* a pending await of some cycle settles, as seen on the cycles in flight:
\* the cycle goes on to response.json(), or runs to its end and leaves.
\* The steps of Next that satisfy it are those of FetchRejects, FetchNotOk,
\* FetchOk and JsonSettles, and one of them is enabled whenever it is
Settle ==
    \E i \in 1..Len(inflight) :
        \/ inflight[i].stage = "fetch" /\ inflight' = [inflight EXCEPT ![i].stage = "json"]
        \/ inflight' = Remove(inflight, i)

\* the network answers or fails: no await stays pending forever
LiveSpec == Spec /\ WF_inflight(Settle)

-----------------------------------------------------------------------------
(* getTimeAgo under an advancing clock *)

\* elapsed times are at most MaxJitter ms away from a mark
MaxJitter == 1

MsPerMin == 60 * 1000

\* 0, 1 s, 59 s, 1 min, 59 min, 1 h, 1 h 59 min, 2 h, 23 h 59 min, 1 day, 2 days
TimeMarks ==
    {0, 1000, 59 * 1000, MsPerMin, 59 * MsPerMin, 60 * MsPerMin,
     119 * MsPerMin, 120 * MsPerMin, (23 * 60 + 59) * MsPerMin,
     24 * 60 * MsPerMin, 48 * 60 * MsPerMin}

\* published in the past, and in the future (negative elapsed time)
ElapsedSamples ==
    {sign * m + j : sign \in {1, -1}, m \in TimeMarks, j \in (-MaxJitter)..MaxJitter}

pageVars == <<variant, dom, phase, inflight, newsList, cryptoNewsList,
              generalNewsList, sentNewsLinks, display, totalNews, lastUpdate,
              loading, last>>

TimeInit ==
    /\ PageInit
    /\ dom = Elements(variant)
    /\ elapsedMs \in ElapsedSamples
    /\ timeAgo = NotRendered

\* a render calls getTimeAgo(news.published) for the item
RenderTime ==
    /\ timeAgo = NotRendered
    /\ timeAgo' = getTimeAgo(variant, elapsedMs)
    /\ UNCHANGED <<pageVars, elapsedMs>>

\* a later render of the same item: now has advanced
TimePasses ==
    /\ timeAgo # NotRendered
    /\ \E d \in ElapsedSamples :
          /\ d > elapsedMs
          /\ elapsedMs' = d
          /\ timeAgo' = [getTimeAgo(variant, d) EXCEPT !.again = TRUE]
    /\ UNCHANGED pageVars

TimeNext == RenderTime \/ TimePasses

TimeSpec == TimeInit /\ [][TimeNext]_vars

-----------------------------------------------------------------------------
(* Properties *)

\* a cycle ran to its end in this step
Completes == Len(inflight') < Len(inflight)

\* the page holds every element a cycle writes to
PageComplete == Elements(variant) \subseteq dom

\* the transport outcomes that carry no data
NoDataOutcome(r) ==
    \/ r.net = "reject"
    \/ ~Ok(r)
    \/ r.body \in {"unparseable", "null"}
    \/ r.success # "true"

\* the value fetchNewsFromCollector returned is a payload
IsPayload(f) == f.kind = "data" \/ (f.kind = "list" /\ f.list # NoList)

\* the value fetchNewsFromCollector returned is the variant's no-data value
IsNoDataValue(f) ==
    /\ ~f.threw
    /\ IF variant = "unified" THEN f.kind = "list" /\ f.list = NoList
       ELSE f.kind = "null"

\* C1: at most one cycle is active at any time: a timer tick that fires
\* while an earlier cycle still awaits its fetch starts no second cycle.
C1_AtMostOneCycleActive == Len(inflight) <= 1

\* C2: no error raised inside a cycle stops the schedule: whenever a cycle
\* (the first included) ended through its catch block, the containers show
\* the error message and the periodic timer is (still) there to trigger
\* later cycles.
C2_ErrorsNeverStopSchedule ==
    /\ phase # "stopped"
    /\ (last.done /\ "catch" \in last.calls)
          => /\ ~last.threw
             /\ \A c \in Containers(variant) : display[c].kind = "error"

\* C3: fetchNewsFromCollector never throws to its caller: every transport
\* outcome without data (rejected call, non-2xx status, unparseable body,
\* success false or absent) ends in the variant's no-data value, and a
\* payload is returned only for an ok status with success true.
C3_FetchNeverThrows ==
    last.done =>
        /\ ~last.fetched.threw
        /\ NoDataOutcome(last.resp) => IsNoDataValue(last.fetched)
        /\ IsPayload(last.fetched) =>
               /\ last.resp.net = "ok" /\ Ok(last.resp)
               /\ last.resp.body = "object" /\ last.resp.success = "true"

\* a cycle whose body failed to parse has completed with the no-data value,
\* after an earlier cycle stored a list
C3_Witness ==
    /\ last.done
    /\ last.resp = BadJson
    /\ IsNoDataValue(last.fetched)
    /\ StoreCount(Page) > 0

\* the containers show the stored list(s) as displayNews renders them
ShowsStore ==
    IF variant = "unified"
    THEN display["newsContainer"] = Content("list", newsList)
    ELSE /\ display["generalNewsContainer"] = Section(generalNewsList)
         /\ display["cryptoNewsContainer"] = Section(cryptoNewsList)

\* the failure responses of scenarios B and C
FailedFetches == {Http500, Envelope("false")}

\* what a cycle resuming now with response r would leave
Outcome(r) == collectAndDisplayNews(Page, fetchNewsFromCollector(variant, r))

\* C4: a cycle whose fetch ends in success=false or in HTTP 500 leaves the
\* stored list(s) as they were; when the store is non-empty the cycle runs
\* displayNews on it, and on a page that holds its elements the containers
\* then show that list; both failures leave the same store and display.
C4_FailedFetchKeepsStore ==
    /\ [][(Completes /\ last'.resp \in FailedFetches) =>
             /\ Store' = Store
             /\ StoreCount(Page) > 0 =>
                    /\ "displayNews" \in last'.calls
                    /\ PageComplete => ShowsStore']_vars
    /\ [](Outcome(Http500) = Outcome(Envelope("false")))

\* a cycle failed with HTTP 500 and the list stored before is on display
C4_Witness ==
    /\ last.done
    /\ last.resp = Http500
    /\ StoreCount(Page) > 0
    /\ PageComplete
    /\ ShowsStore

\* the response carries no item: a failure, or a success with empty lists
NothingArrived(r) == NoDataOutcome(r) \/ ItemsOf(r) = {}

\* C5: a cycle with a no-data outcome on an empty store ends with the
\* no-news (empty list) message in every container and not with the error
\* message, on a page where producing the display cannot fail.
C5_NoDataOnEmptyStoreShowsNoNews ==
    (last.done /\ NothingArrived(last.resp) /\ StoreCount(Page) = 0 /\ PageComplete)
        => \A c \in Containers(variant) : display[c].kind = "empty"

\* C6: every store list holds at most maxNewsCount items: 50 in newsList,
\* 5 in each of cryptoNewsList and generalNewsList.
C6_StoreWithinCap ==
    /\ Len(newsList) <= maxNewsCount("unified")
    /\ Len(cryptoNewsList) <= maxNewsCount("partitioned")
    /\ Len(generalNewsList) <= maxNewsCount("partitioned")

C8_SuccessItemsNeverDropped ==
    (/\ last.done
     /\ Ok(last.resp) /\ last.resp.body = "object" /\ last.resp.success = "true"
     /\ ItemsOf(last.resp) # {})
        => /\ IsPayload(last.fetched)
           /\ StoreCount(Page) > 0

Min(a, b) == IF a < b THEN a ELSE b

\* the last cycle received a flat success payload of at least one item
GotFlatPayload ==
    /\ last.done
    /\ Ok(last.resp) /\ last.resp.body = "object" /\ last.resp.success = "true"
    /\ last.resp.shape = "flat"
    /\ Len(last.resp.news) >= 1

\* C9: in the unified variant a cycle that receives k >= 1 items leaves
\* newsList equal to the payload's first min(k, maxNewsCount) items in
\* payload order, whatever the store held before.
C9_StoreIsPayloadPrefix ==
    (variant = "unified" /\ GotFlatPayload)
        => newsList = [i \in 1..Min(Len(last.resp.news), maxNewsCount("unified"))
                          |-> last.resp.news[i]]

\* a later cycle received more than maxNewsCount items and the store holds
\* exactly maxNewsCount of them
C9_Witness ==
    /\ variant = "unified"
    /\ GotFlatPayload
    /\ ~last.first
    /\ Len(last.resp.news) > maxNewsCount("unified")
    /\ Len(newsList) = maxNewsCount("unified")

\* C10: in the unified variant two consecutive cycles that receive the same
\* payload leave the same newsList, and the list an update leaves does not
\* depend on sentNewsLinks.
C10_UpdateIdempotent ==
    /\ [][(/\ Completes
           /\ variant = "unified"
           /\ GotFlatPayload
           /\ last'.resp = last.resp) => newsList' = newsList]_vars
    /\ [](\A l \in Lists("unified") :
             StoreUnified(Page, l).newsList
                 = StoreUnified([Page EXCEPT !.sentNewsLinks = {}], l).newsList)

\* the same non-empty payload arrived twice in a row
C10_Witness ==
    /\ variant = "unified"
    /\ GotFlatPayload
    /\ last.repeat
    /\ sentNewsLinks # {}
    /\ ShowsStore

-----------------------------------------------------------------------------
(* getTimeAgo: thresholds, monotonicity, agreement of the two variants *)

Rendered == timeAgo.tier # "none"

Shown(l) == <<l.tier, l.n>>

\* the label the thresholds on the elapsed time d (in ms) call for
ThresholdLabel(d) ==
    IF d < MsPerMin THEN <<"now", 0>>
    ELSE IF d < 60 * MsPerMin THEN <<"minutes", d \div MsPerMin>>
    ELSE IF d < 24 * 60 * MsPerMin THEN <<"hours", d \div (60 * MsPerMin)>>
    ELSE <<"days", d \div (24 * 60 * MsPerMin)>>

BoundaryLabels(v) ==
    /\ Shown(getTimeAgo(v, 59 * 1000)) = <<"now", 0>>
    /\ Shown(getTimeAgo(v, 60 * 1000)) = <<"minutes", 1>>
    /\ Shown(getTimeAgo(v, 59 * MsPerMin)) = <<"minutes", 59>>
    /\ Shown(getTimeAgo(v, 60 * MsPerMin)) = <<"hours", 1>>
    /\ Shown(getTimeAgo(v, (23 * 60 + 59) * MsPerMin)) = <<"hours", 23>>
    /\ Shown(getTimeAgo(v, 24 * 60 * MsPerMin)) = <<"days", 1>>

\* C12: the label getTimeAgo returns for an elapsed time is the one the
\* exclusive thresholds 1 minute, 60 minutes, 24 hours select, with the floored
\* count, and the six boundary values 59 s, 60 s, 59 min, 60 min, 23 h 59 min
\* and 24 h get just now, 1 minute, 59 minutes, 1 hour, 23 hours and 1 day
C12_ThresholdsExact ==
    /\ Rendered => Shown(timeAgo) = ThresholdLabel(elapsedMs)
    /\ BoundaryLabels(variant)

\* a render exactly 60 minutes after publication shows 1 hour
C12_Witness ==
    /\ elapsedMs = 60 * MsPerMin
    /\ Shown(timeAgo) = <<"hours", 1>>

TierRank(tier) ==
    CASE tier = "now" -> 0
      [] tier = "minutes" -> 1
      [] tier = "hours" -> 2
      [] tier = "days" -> 3

LabelLeq(a, b) ==
    \/ TierRank(a.tier) < TierRank(b.tier)
    \/ a.tier = b.tier /\ a.n <= b.n

\* C13: when an item is rendered again after more time has elapsed, its label
\* is not smaller than before, by tier and then by count; and the same holds
\* between any two sampled elapsed times d1 <= d2
C13_Monotonic ==
    /\ [][(Rendered /\ elapsedMs <= elapsedMs') => LabelLeq(timeAgo, timeAgo')]_vars
    /\ [](\A d \in ElapsedSamples :
            d <= elapsedMs => LabelLeq(getTimeAgo(variant, d),
                                       getTimeAgo(variant, elapsedMs)))

\* an item rendered again once two hours have gone by
C13_Witness ==
    /\ timeAgo.again
    /\ elapsedMs = 120 * MsPerMin
    /\ Shown(timeAgo) = <<"hours", 2>>

\* C17: for the elapsed time of every render, negative ones included, the
\* minutes the partitioned variant computes in two floors equal the minutes the
\* unified variant computes in one, and the two variants return the same label
C17_VariantsAgree ==
    /\ diffMins("partitioned", elapsedMs) = diffMins("unified", elapsedMs)
    /\ getTimeAgo("partitioned", elapsedMs) = getTimeAgo("unified", elapsedMs)
    /\ Rendered => Shown(timeAgo) = Shown(getTimeAgo("unified", elapsedMs))
                   /\ Shown(timeAgo) = Shown(getTimeAgo("partitioned", elapsedMs))

\* a render of an item published one millisecond in the future
C17_Witness ==
    /\ Rendered
    /\ elapsedMs = -1
    /\ diffMins(variant, elapsedMs) = -1

-----------------------------------------------------------------------------
(* every cycle ends in a display step with the loading indicator hidden *)

DisplaySteps == {"displayNews", "showNoNewsMessage", "showErrorMessage"}

\* C11: every cycle, whatever its fetch gave, calls a display step (the list,
\* the empty-list message or the error message) and ends with no loading
\* indicator shown, on a complete page with every container written; and as
\* long as pending fetches settle, a shown loading indicator gets hidden
C11_CycleDisplaysAndHidesLoading ==
    /\ [][Completes =>
            /\ last'.calls \cap DisplaySteps # {}
            /\ loading' = {}
            /\ PageComplete =>
                 \A c \in Containers(variant) :
                     display'[c].kind \in {"list", "empty", "error"}]_vars
    /\ (loading # {}) ~> (loading = {})

\* a cycle whose fetch was rejected has shown the store or a message and has
\* hidden the indicators the page has
C11_Witness ==
    /\ last.done
    /\ last.resp = NetReject
    /\ PageComplete
    /\ last.calls \cap DisplaySteps # {}
    /\ loading = {}

-----------------------------------------------------------------------------
(* sentNewsLinks *)

\* C14: in the unified variant no step removes a link from sentNewsLinks; once
\* a cycle has received a non-empty payload the set holds the link of every
\* item of it, those beyond the cap too; and every stored item's link is in it
C14_LinksOnlyGrow ==
    /\ [][variant = "unified" => sentNewsLinks \subseteq sentNewsLinks']_vars
    /\ []((variant = "unified" /\ GotFlatPayload)
            => Links(last.resp.news) \subseteq sentNewsLinks)
    /\ [](variant = "unified" => Links(newsList) \subseteq sentNewsLinks)

\* a later cycle received one item more than the cap: the link of the item
\* cut off is recorded, next to links the list no longer holds
C14_Witness ==
    /\ variant = "unified"
    /\ GotFlatPayload
    /\ ~last.first
    /\ Len(last.resp.news) = maxNewsCount("unified") + 1
    /\ last.resp.news[Len(last.resp.news)] \in sentNewsLinks \ Links(newsList)
    /\ Cardinality(sentNewsLinks) > Len(last.resp.news)

-----------------------------------------------------------------------------
(* what a render reads *)

\* the store is what one update leaves: the capped list of one payload, or the
\* two lists of one payload (the empty store is that of an empty payload)
WholeUpdate ==
    IF variant = "unified"
    THEN newsList = NoList
         \/ \E l \in Lists("unified") : newsList = Truncate(l, maxNewsCount("unified"))
    ELSE \E r \in BodiesPartitioned :
            /\ r.success = "true"
            /\ cryptoNewsList = CryptoField(r)
            /\ generalNewsList = GeneralField(r)

\* C15: under every interleaving of cycles the store a render may read is the
\* result of one whole update (unified: one payload's list, capped; partitioned:
\* both lists of one payload), and a cycle whose render went through shows
\* exactly the store that cycle leaves
C15_RenderReadsWholeUpdate ==
    /\ [][(Completes /\ "displayNews" \in last'.calls /\ "catch" \notin last'.calls)
            => (ShowsStore /\ WholeUpdate)']_vars
    /\ []WholeUpdate

\* with another cycle still in flight, a later cycle has stored and rendered
\* both lists of a payload that exceeds the cap
C15_Witness ==
    /\ variant = "partitioned"
    /\ last.done /\ ~last.first
    /\ Len(inflight) > 0
    /\ "displayNews" \in last.calls /\ "catch" \notin last.calls
    /\ Len(cryptoNewsList) > maxNewsCount("partitioned")
    /\ Len(generalNewsList) > maxNewsCount("partitioned")
    /\ ShowsStore

-----------------------------------------------------------------------------
(* responses arriving out of order *)

\* the cycle that completes in this step had been overtaken: a request issued
\* after its own had already delivered a payload
LateCompletes ==
    \E i \in 1..Len(inflight) :
        /\ inflight[i].late
        /\ \E payload \in BOOLEAN : inflight' = Overtake(inflight, i, payload)

\* C16 as stated: the response to a request issued earlier, arriving after a
\* later request has delivered its payload, does not overwrite the store
C16_NoStaleOverwrite == [][LateCompletes => Store' = Store]_vars

-----------------------------------------------------------------------------
(* the total and the items on the page *)

ItemsRendered(c) == IF display[c].kind = "list" THEN Len(display[c].items) ELSE 0

\* C18 as stated: in the partitioned variant, after a cycle that rendered the
\* lists and updated the stats, the total shown equals the number of items
\* rendered in the crypto and the general section together
C18_TotalEqualsRendered ==
    (/\ variant = "partitioned"
     /\ last.done
     /\ PageComplete
     /\ "statsDone" \in last.calls
     /\ "catch" \notin last.calls)
        => totalNews.n = ItemsRendered("cryptoNewsContainer")
                         + ItemsRendered("generalNewsContainer")

====
